---- MODULE Spec2Model ----
(***************************************************************************)
(* Product preview enrichment pipeline of listy:                           *)
(*   src/src/app/api/products/ingest/route.ts        (POST, rate limit,    *)
(*                                                     cache)              *)
(*   src/src/lib/product-ingest/normalizeUrl.ts      (normalizeUrl)        *)
(*   src/src/lib/product-ingest/extractFromHtml.ts   (extractFromHtml,     *)
(*                                                     mergePreviews,      *)
(*                                                     scorePreview)       *)
(*   src/src/lib/product-ingest/extractFromDiffbot.ts (extractFromDiffbot) *)
(*   src/src/components/list/ListHeader.tsx          (extractFromBrightData)*)
(*                                                                         *)
(* Strings are sequences of tokens, each token standing for a run of       *)
(* characters ("https:", "//", "amazon.", "/", "B0ABCDEFGH", ...).  An      *)
(* optional value (a JavaScript value that may be undefined) is a sequence *)
(* of length 0 (undefined) or 1.                                           *)
(***************************************************************************)
EXTENDS Integers, Sequences, FiniteSets, TLC

VARIABLES
  now,         \* wall clock, in hours since 2026-01-01T00:00Z
  rateLimits,  \* collection productIngestRateLimits: document id -> count
  cache,       \* collection productPreviews: hash -> entry
  req,         \* one record per request being handled by POST
  allowedIn,   \* history: <<user, hour>> -> requests checkRateLimit allowed
  served,      \* the requests that have arrived at the handler
  nIn,         \* function harnesses: the input
  nOut,        \* function harnesses: results of successive applications
  polling      \* the polling loop of extractFromBrightData

vars == <<now, rateLimits, cache, req, allowedIn, served, nIn, nOut, polling>>

None == <<>>
Some(x) == <<x>>

(***************************************************************************)
(* Bounds of the model.                                                    *)
(***************************************************************************)
MaxSegs == 3        \* path segments of an input URL
MaxParams == 2      \* query parameters of an input URL

(***************************************************************************)
(* normalizeUrl.ts                                                         *)
(***************************************************************************)
trackingParams ==
  {"utm_source", "utm_medium", "utm_campaign", "utm_term", "utm_content",
   "gclid", "fbclid", "mc_cid", "mc_eid", "igshid", "msclkid"}

\* param.startsWith('utm_'), on the parameter-name tokens of the model
StartsWithUtm(k) ==
  k \in {"utm_source", "utm_medium", "utm_campaign", "utm_term", "utm_content", "utm_id"}

\* The schemes the URL parser treats as special (their host is parsed, and
\* the protocol setter may switch between them).
SpecialSchemes == {"http:", "https:", "ftp:"}

\* Other leading tokens the URL parser reads as a scheme (letters, digits,
\* "+", "-", "." up to the first ":"): what follows without "//" is an opaque
\* path
OtherSchemes == {"localhost:"}

\* Ten-character alphanumeric path segments: /[A-Z0-9]{10}/i
AsinTokens == {"B0ABCDEFGH", "b0abcdefgh", "Chromebook"}

\* String.prototype.toUpperCase on a path-segment token
ToUpperCase(t) ==
  CASE t = "b0abcdefgh" -> "B0ABCDEFGH"
    [] t = "Chromebook" -> "CHROMEBOOK"
    [] OTHER -> t

\* The URL parser lower-cases the host of a special scheme
ToLowerCase(t) ==
  CASE t = "WWW." -> "www."
    [] t = "Amazon." -> "amazon."
    [] OTHER -> t

\* Characters the host parser rejects (a space stands for all of them)
ForbiddenHostTokens == {" "}

RECURSIVE TakeUntil(_, _)
\* longest prefix of s holding no token of stop
TakeUntil(s, stop) ==
  IF s = <<>> \/ Head(s) \in stop THEN <<>>
  ELSE <<Head(s)>> \o TakeUntil(Tail(s), stop)

DropN(s, n) == SubSeq(s, n + 1, Len(s))

RECURSIVE SplitPath(_)
\* path tokens ("/", segment, "/", ...) to the sequence of segments; a "/"
\* directly followed by "/" or by the end opens an empty segment
SplitPath(p) ==
  IF p = <<>> THEN <<>>
  ELSE IF Len(p) >= 2 /\ p[2] # "/"
       THEN <<p[2]>> \o SplitPath(DropN(p, 2))
       ELSE <<"">> \o SplitPath(DropN(p, 1))

RECURSIVE PathTokens(_)
\* url.pathname as tokens: "/" before every segment
PathTokens(segs) ==
  IF segs = <<>> THEN <<>>
  ELSE <<"/">> \o (IF Head(segs) = "" THEN <<>> ELSE <<Head(segs)>>)
       \o PathTokens(Tail(segs))

RECURSIVE ParseQuery(_)
\* URLSearchParams of a raw query: name=value pairs separated by "&"
ParseQuery(q) ==
  IF q = <<>> THEN <<>>
  ELSE LET one == TakeUntil(q, {"&"})
           name == IF one = <<>> THEN "" ELSE one[1]
           value == IF Len(one) >= 3 THEN one[3] ELSE ""
           rest == DropN(q, Len(one) + 1)
       IN  (IF one = <<>> THEN <<>> ELSE << <<name, value>> >>) \o ParseQuery(rest)

RECURSIVE SerializeQuery(_)
\* URLSearchParams serializer: name=value joined by "&"
SerializeQuery(ps) ==
  IF ps = <<>> THEN <<>>
  ELSE <<ps[1][1], "=">> \o (IF ps[1][2] = "" THEN <<>> ELSE <<ps[1][2]>>)
       \o (IF Len(ps) > 1 THEN <<"&">> ELSE <<>>)
       \o SerializeQuery(Tail(ps))

\* new URL(s): [ok |-> FALSE] when the parser throws
ParseURL(s) ==
  IF s # <<>> /\ Head(s) \in OtherSchemes
  THEN LET path == TakeUntil(Tail(s), {"?"})
           afterPath == DropN(Tail(s), Len(path))
       IN  [ok |-> TRUE, opaque |-> TRUE, protocol |-> Head(s), host |-> <<>>,
            segs |-> path,
            query |-> IF afterPath = <<>> THEN None ELSE Some(Tail(afterPath))]
  ELSE IF s = <<>> \/ Head(s) \notin SpecialSchemes
  THEN [ok |-> FALSE]
  ELSE LET afterScheme == Tail(s)
           rest == IF afterScheme # <<>> /\ Head(afterScheme) = "//"
                   THEN Tail(afterScheme) ELSE afterScheme
           host == TakeUntil(rest, {"/", "?"})
           afterHost == DropN(rest, Len(host))
           path == TakeUntil(afterHost, {"?"})
           afterPath == DropN(afterHost, Len(path))
       IN  IF host = <<>> \/ \E i \in 1..Len(host) : host[i] \in ForbiddenHostTokens
           THEN [ok |-> FALSE]
           ELSE [ok |-> TRUE, opaque |-> FALSE,
                 protocol |-> Head(s),
                 host |-> [i \in 1..Len(host) |-> ToLowerCase(host[i])],
                 segs |-> IF path = <<>> THEN <<"">> ELSE SplitPath(path),
                 query |-> IF afterPath = <<>> THEN None ELSE Some(Tail(afterPath))]

\* url.toString()
Href(u) ==
  (IF u.opaque THEN <<u.protocol>> \o u.segs
   ELSE <<u.protocol, "//">> \o u.host \o PathTokens(u.segs))
  \o (IF u.query = None THEN <<>> ELSE <<"?">> \o u.query[1])

\* line 31, the protocol setter: a URL keeps its scheme when the new scheme
\* is special and its own is not
SetProtocol(u, scheme) ==
  IF (u.protocol \in SpecialSchemes) = (scheme \in SpecialSchemes)
  THEN [u EXCEPT !.protocol = scheme]
  ELSE u

\* String.prototype.includes on a host, for the needles the code uses
HostIncludes(host, needle) ==
  \E i \in 1..Len(host) :
    \/ host[i] = needle
    \/ host[i] = "notamazon." /\ needle = "amazon."

\* crypto.createHash('sha256').update(normalized).digest('hex')
Sha256Hex(s) == <<"sha256">> \o s

\* A filter that knows the fixed names only
StripFixedSetOnly(u) ==
  IF u.query = None THEN u
  ELSE LET ps == ParseQuery(u.query[1])
           kept == SelectSeq(ps, LAMBDA p : p[1] \notin trackingParams)
       IN  IF Len(kept) = Len(ps) THEN u
           ELSE [u EXCEPT !.query = IF kept = <<>> THEN None
                                    ELSE Some(SerializeQuery(kept))]

\* lines 33-38: delete every tracking parameter through url.searchParams;
\* a delete re-serializes the query, and an emptied list leaves no query
StripTracking(u) ==
  IF u.query = None THEN u
  ELSE LET ps == ParseQuery(u.query[1])
           isTracking(p) == p[1] \in trackingParams \/ StartsWithUtm(p[1])
           kept == SelectSeq(ps, LAMBDA p : ~isTracking(p))
       IN  IF Len(kept) = Len(ps) THEN u
           ELSE [u EXCEPT !.query = IF kept = <<>> THEN None
                                    ELSE Some(SerializeQuery(kept))]

\* lines 40-48: the first path segment of ten alphanumerics on an Amazon host
AmazonAsin(u) ==
  IF HostIncludes(u.host, "amazon.") /\ \E i \in 1..Len(u.segs) : u.segs[i] \in AsinTokens
  THEN LET i == CHOOSE i \in 1..Len(u.segs) :
                  /\ u.segs[i] \in AsinTokens
                  /\ \A j \in 1..(i - 1) : u.segs[j] \notin AsinTokens
       IN  [u EXCEPT !.segs = <<"dp", ToUpperCase(u.segs[i])>>, !.query = None]
  ELSE u

\* lines 50-53: one trailing slash is removed, except from the root path;
\* the pathname setter leaves an opaque path alone
StripTrailingSlash(u) ==
  IF ~u.opaque /\ u.segs # <<"">> /\ u.segs[Len(u.segs)] = ""
  THEN [u EXCEPT !.segs = SubSeq(u.segs, 1, Len(u.segs) - 1)]
  ELSE u

\* lines 17-59
normalizeUrl(input) ==
  LET first == ParseURL(input)
      url == IF first.ok THEN first ELSE ParseURL(<<"https:", "//">> \o input)
  IN  IF ~url.ok THEN [ok |-> FALSE]
      ELSE LET u == StripTrailingSlash(AmazonAsin(StripTracking(
                      SetProtocol(url, "https:"))))
           IN  [ok |-> TRUE,
                normalized |-> Href(u),
                hash |-> Sha256Hex(Href(u)),
                hostname |-> [i \in 1..Len(u.host) |-> ToLowerCase(u.host[i])]]

(***************************************************************************)
(* ProductPreview (types.ts) and mergeAndScore.ts.  Every field value is a *)
(* token string (<<>> the empty string), the number n of price is <<n>>;   *)
(* source is an atom; confidence is in hundredths.                         *)
(***************************************************************************)
OptionalFields ==
  {"canonicalUrl", "title", "description", "price", "currency", "image", "images",
   "availability"}

\* A preview with only url, source, confidence and warnings set
BarePreview(url, source, warnings) ==
  [url |-> url, canonicalUrl |-> None, title |-> None, description |-> None,
   price |-> None, currency |-> None, image |-> None, images |-> None,
   availability |-> None, source |-> source, confidence |-> 0, warnings |-> warnings]

\* JavaScript truthiness of an optional string
Truthy(o) == o # None /\ o[1] # <<>>

\* the number n as a field value
Num(n) == <<n>>

\* A pick that always takes the incoming value
PickIncoming(current, incoming) == incoming

\* lines 329-333 (null does not occur: the stages produce undefined)
pick(current, incoming) ==
  IF incoming # None /\ incoming[1] # <<>> THEN incoming ELSE current

WhiteSpace == {" "}

RECURSIVE TrimStart(_)
TrimStart(t) == IF t # <<>> /\ Head(t) \in WhiteSpace THEN TrimStart(Tail(t)) ELSE t

RECURSIVE TrimEnd(_)
TrimEnd(t) ==
  IF t # <<>> /\ t[Len(t)] \in WhiteSpace THEN TrimEnd(SubSeq(t, 1, Len(t) - 1)) ELSE t

\* String.prototype.trim
Trim(t) == TrimEnd(TrimStart(t))

\* .replace(/^Amazon\.com:\s*/i, ''): the prefix once, with the blanks after it
StripPrefix(t) ==
  IF t # <<>> /\ Head(t) \in {"Amazon.com:", "amazon.com:"} THEN TrimStart(Tail(t)) ELSE t

\* .replace(/\s*<sep>\s*Amazon\.com$/i, ''): the suffix once, with the blanks
\* before it; sep is "|" or "-"
StripSuffix(t, sep) ==
  LET n == Len(t)
  IN  IF n >= 2 /\ t[n] \in {"Amazon.com", "amazon.com"} /\ t[n - 1] = sep
      THEN TrimEnd(SubSeq(t, 1, n - 2))
      ELSE IF n >= 3 /\ t[n] \in {"Amazon.com", "amazon.com"} /\ t[n - 1] \in WhiteSpace
              /\ t[n - 2] = sep
      THEN TrimEnd(SubSeq(t, 1, n - 3))
      ELSE t

\* lines 335-340
cleanTitleText(t) ==
  IF t = None THEN None
  ELSE Some(Trim(StripSuffix(StripSuffix(StripPrefix(t[1]), "|"), "-")))

\* lines 342-365; overlay is None for null
mergePreviews(base, overlay) ==
  IF overlay = None
  THEN [base EXCEPT !.title = cleanTitleText(base.title),
                    !.description = cleanTitleText(base.description)]
  ELSE LET o == overlay[1]
           firstImage == IF o.images # None /\ Len(o.images[1]) > 0
                         THEN Some(o.images[1][1]) ELSE None
       IN  [url |-> base.url,
            canonicalUrl |-> pick(base.canonicalUrl, o.canonicalUrl),
            title |-> cleanTitleText(pick(base.title, o.title)),
            description |-> cleanTitleText(pick(base.description, o.description)),
            price |-> pick(base.price, o.price),
            currency |-> pick(base.currency, o.currency),
            image |-> pick(base.image, IF Truthy(o.image) THEN o.image ELSE firstImage),
            images |-> IF o.images # None /\ Len(o.images[1]) > 0 THEN o.images
                       ELSE base.images,
            availability |-> pick(base.availability, o.availability),
            source |-> IF o.source # "" THEN o.source ELSE base.source,
            confidence |-> base.confidence,
            warnings |-> base.warnings \o o.warnings]

Min(a, b) == IF a < b THEN a ELSE b

\* lines 368-376: the weighted sum, over the preview as it was passed in
Confidence(p) ==
  Min(100,
      (IF Truthy(p.title) THEN 35 ELSE 0)
      + (IF Truthy(p.image) THEN 25 ELSE 0)
      + (IF p.price # None /\ Truthy(p.currency) THEN 25 ELSE 0)
      + (IF Truthy(p.description) THEN 10 ELSE 0))

\* lines 378-381
ScoreWarnings(p) ==
  p.warnings
  \o (IF ~Truthy(p.image) THEN <<"Missing product image">> ELSE <<>>)
  \o (IF p.price = None \/ ~Truthy(p.currency) THEN <<"Missing price or currency">> ELSE <<>>)
  \o (IF ~Truthy(p.title) THEN <<"Missing title">> ELSE <<>>)

\* lines 367-388
scorePreview(p) ==
  LET dup == Truthy(p.description) /\ Truthy(p.title)
             /\ Trim(p.description[1]) = Trim(p.title[1])
  IN  [p EXCEPT !.confidence = Confidence(p),
                !.warnings = ScoreWarnings(p),
                !.description = IF dup THEN None ELSE @]

\* A test that looks at the four fields only
NeedsCriticalFieldsOnly(p, threshold) ==
  ~Truthy(p.title) \/ ~Truthy(p.image) \/ p.price = None \/ ~Truthy(p.currency)

\* route.ts lines 89-92
needsBetterData(p, threshold) ==
  LET missingCritical ==
        ~Truthy(p.title) \/ ~Truthy(p.image) \/ p.price = None \/ ~Truthy(p.currency)
  IN  p.confidence < threshold \/ missingCritical

\* Object.fromEntries(Object.entries(preview).filter(([, v]) => v !== undefined)):
\* the record without its undefined-valued keys; JSON.stringify does the same
StripUndefined(p) ==
  [k \in {f \in DOMAIN p : f \notin OptionalFields \/ p[f] # None} |-> p[k]]

\* preview.<f> of a stored preview: undefined when the key is absent
Field(p, f) == IF f \in DOMAIN p THEN p[f] ELSE None

\* A test that also asks for a description
IsWeakWithoutDescription(p) ==
  \/ ~Truthy(Field(p, "title"))
  \/ ~Truthy(Field(p, "image"))
  \/ Field(p, "price") = None
  \/ ~Truthy(Field(p, "currency"))
  \/ ~Truthy(Field(p, "description"))

\* route.ts lines 52-54
isWeakPreview(p) ==
  \/ ~Truthy(Field(p, "title"))
  \/ ~Truthy(Field(p, "image"))
  \/ Field(p, "price") = None
  \/ ~Truthy(Field(p, "currency"))

(***************************************************************************)
(* route.ts: clock and rate limiter                                        *)
(***************************************************************************)
TTL_DAYS == 30
RATE_LIMIT_PER_HOUR == 30

HoursPerDay == 24
EpochYear == 2026

\* days of the months of 2026
MonthLengths == <<31, 28, 31, 30, 31, 30, 31, 31, 30, 31, 30, 31>>

RECURSIVE MonthAndDate(_, _)
\* <<getUTCMonth() + 1, getUTCDate()>> of the d-th day (from 0) counted from
\* the first day of month m
MonthAndDate(d, m) ==
  IF d < MonthLengths[m] THEN <<m, d + 1>>
  ELSE MonthAndDate(d - MonthLengths[m], m + 1)

\* new Date() at clock t, as the UTC getters of line 38 read it
UTCFields(t) ==
  LET md == MonthAndDate(t \div HoursPerDay, 1)
  IN  [year |-> EpochYear, month |-> md[1], date |-> md[2], hours |-> t % HoursPerDay]

\* line 38: the template string concatenates the four numbers unpadded
Bucket(t) ==
  LET f == UTCFields(t)
  IN  ToString(f.year) \o ToString(f.month) \o ToString(f.date) \o ToString(f.hours)

\* line 39: the document id
RateLimitDocId(userId, bucket) == userId \o "_" \o bucket

\* snap.exists ? (snap.data()?.count || 0) : 0
CountOf(store, id) == IF id \in DOMAIN store THEN store[id] ELSE 0

\* what tx.get(ref) observes of the document
Snapshot(store, id) == [exists |-> id \in DOMAIN store, count |-> CountOf(store, id)]

Users == {"u1", "u2"}

\* A request before POST has done anything
FreshRequest ==
  [pc |-> "auth", userId |-> "", norm |-> [ok |-> FALSE], bucket |-> "", hour |-> 0,
   snap |-> None, allowed |-> FALSE, pending |-> None, resp |-> None,
   run |-> [crashed |-> FALSE, invoked |-> {}, raw1 |-> None, scored1 |-> None,
            current2 |-> None, preview |-> None, soft |-> <<>>, hung |-> FALSE],
   wrote |-> FALSE, rlChecked |-> FALSE, hit |-> FALSE]

\* lines 16-18
buildError(status, message) == [status |-> status, body |-> [error |-> message]]

\* lines 36-39: checkRateLimit reads the clock and names the document
CheckRateLimitBegin(r) ==
  /\ req[r].pc = "ratelimit"
  /\ req' = [req EXCEPT ![r].pc = "tx_get", ![r].bucket = Bucket(now), ![r].hour = now,
                        ![r].rlChecked = TRUE]
  /\ UNCHANGED <<now, rateLimits, cache, allowedIn, served, nIn, nOut, polling>>

\* line 42: tx.get(ref)
TxGet(r) ==
  /\ req[r].pc = "tx_get"
  /\ req' = [req EXCEPT ![r].pc = "tx_commit",
                        ![r].snap = Some(Snapshot(rateLimits, RateLimitDocId(req[r].userId, req[r].bucket)))]
  /\ UNCHANGED <<now, rateLimits, cache, allowedIn, served, nIn, nOut, polling>>

\* A commit that does not look at what the document has become since the read
BlindCommit(snap, store, id) == TRUE

\* runTransaction: a transaction whose read document changed is run again
CommitValid(snap, store, id) == snap = Snapshot(store, id)

\* lines 43-48 and the commit of the transaction
TxCommit(r) ==
  LET id == RateLimitDocId(req[r].userId, req[r].bucket)
      snap == req[r].snap[1]
      count == snap.count
  IN  /\ req[r].pc = "tx_commit"
      /\ IF ~CommitValid(snap, rateLimits, id)
         THEN /\ req' = [req EXCEPT ![r].pc = "tx_get", ![r].snap = None]
              /\ UNCHANGED <<rateLimits, allowedIn>>
         ELSE IF count >= RATE_LIMIT_PER_HOUR
         THEN /\ req' = [req EXCEPT ![r].pc = "rl_result", ![r].allowed = FALSE, ![r].snap = None]
              /\ UNCHANGED <<rateLimits, allowedIn>>
         ELSE /\ rateLimits' = [k \in DOMAIN rateLimits \cup {id} |->
                                  IF k = id THEN count + 1 ELSE rateLimits[k]]
              /\ allowedIn' = [allowedIn EXCEPT ![<<req[r].userId, req[r].hour>>] = @ + 1]
              /\ req' = [req EXCEPT ![r].pc = "rl_result", ![r].allowed = TRUE, ![r].snap = None]
      /\ UNCHANGED <<now, cache, served, nIn, nOut, polling>>

\* lines 130-133
PostRateLimit(r) ==
  /\ req[r].pc = "rl_result"
  /\ req' = IF req[r].allowed
            THEN [req EXCEPT ![r].pc = "cache_lookup"]
            ELSE [req EXCEPT ![r].pc = "done",
                             ![r].resp = Some(buildError(429, "Rate limit exceeded. Please try again later."))]
  /\ UNCHANGED <<now, rateLimits, cache, allowedIn, served, nIn, nOut, polling>>

\* Time passes: the clock moves to a later hour of T
Tick(T) ==
  /\ \E t \in T : t > now /\ now' = t
  /\ UNCHANGED <<rateLimits, cache, req, allowedIn, served, nIn, nOut, polling>>

(***************************************************************************)
(* The rate limiter alone: MaxClients concurrent requests of one user that *)
(* have passed authentication and validation, each followed by a new one.  *)
(* The hours: 1 January 11:00 and 11 January 01:00.                        *)
(***************************************************************************)
MaxClients == 2

RateHours == {11, 241}

Clients == 1..MaxClients

\* the store before the requests of the model: user u1 is three requests
\* short of the quota of the first hour
InitRate ==
  /\ now = 11
  /\ rateLimits = [k \in {RateLimitDocId("u1", Bucket(11))} |-> RATE_LIMIT_PER_HOUR - 3]
  /\ cache = <<>>
  /\ req = [r \in Clients |-> [FreshRequest EXCEPT !.pc = "ratelimit", !.userId = "u1"]]
  /\ allowedIn = [k \in Users \X RateHours |->
                    IF k = <<"u1", 11>> THEN RATE_LIMIT_PER_HOUR - 3 ELSE 0]
  /\ served = 0
  /\ nIn = <<>> /\ nOut = <<>>
  /\ polling = None

\* The request has been answered (429) or goes on to the cache lookup; the
\* client sends its next request
NextRequest(r) ==
  /\ req[r].pc \in {"done", "cache_lookup"}
  /\ req' = [req EXCEPT ![r] = [FreshRequest EXCEPT !.pc = "ratelimit", !.userId = "u1"]]
  /\ UNCHANGED <<now, rateLimits, cache, allowedIn, served, nIn, nOut, polling>>

NextRate ==
  \/ \E r \in Clients :
       \/ CheckRateLimitBegin(r)
       \/ TxGet(r)
       \/ TxCommit(r)
       \/ PostRateLimit(r)
       \/ NextRequest(r)
  \/ Tick(RateHours)

SpecRate == InitRate /\ [][NextRate]_vars

\* C1: for every user and every UTC hour, checkRateLimit allows at most 30
\* requests, and no stored count exceeds 30.
C1_AtMostThirty ==
  /\ \A k \in DOMAIN allowedIn : allowedIn[k] <= RATE_LIMIT_PER_HOUR
  /\ \A id \in DOMAIN rateLimits : rateLimits[id] <= RATE_LIMIT_PER_HOUR

\* Two concurrent requests have both read count = 29 and one has committed.
C1_Witness ==
  \E r1, r2 \in DOMAIN req :
    /\ r1 # r2
    /\ req[r1].pc = "rl_result" /\ req[r1].allowed
    /\ req[r2].pc = "tx_commit" /\ req[r2].snap[1].count = RATE_LIMIT_PER_HOUR - 1
    /\ req[r1].bucket = req[r2].bucket
    /\ CountOf(rateLimits, RateLimitDocId(req[r1].userId, req[r1].bucket)) = RATE_LIMIT_PER_HOUR

\* C2: a request is rejected only when 30 requests of its user have already
\* been allowed in its UTC hour (so the first 30 of an hour are allowed and
\* the first request of the next hour is allowed again), and the 31st is
\* answered 429.
C2_FirstThirtyPerHour ==
  \A r \in DOMAIN req :
    /\ (req[r].pc = "rl_result" /\ ~req[r].allowed)
         => allowedIn[<<req[r].userId, req[r].hour>>] = RATE_LIMIT_PER_HOUR
    /\ (req[r].pc = "done" /\ req[r].resp # None /\ req[r].resp[1].status = 429)
         => allowedIn[<<req[r].userId, req[r].hour>>] = RATE_LIMIT_PER_HOUR

\* C26: the bucket key tells the UTC hours apart: two rate-limit checks made
\* in different hours never use the same bucket key.
C26_BucketKeyInjective ==
  \A r1, r2 \in DOMAIN req :
    (/\ req[r1].bucket # "" /\ req[r2].bucket # ""
     /\ req[r1].hour # req[r2].hour)
      => req[r1].bucket # req[r2].bucket

(***************************************************************************)
(* The extraction stages.  What the network answers is an input: a page    *)
(* for Stage 1, a reply for Stage 2, a run of the job protocol for Stage 3. *)
(* The fields of a page, object or record are the values the adapters'     *)
(* fallback chains resolve.                                                *)
(***************************************************************************)
Stage(preview, warnings) ==
  [threw |-> FALSE, hung |-> FALSE, preview |-> preview, warnings |-> warnings]

\* The call rejects: an exception leaves the adapter
Throws == [threw |-> TRUE, hung |-> FALSE, preview |-> None, warnings |-> <<>>]

\* The call never settles: a fetch without abort signal whose server never
\* answers
Hangs == [threw |-> FALSE, hung |-> TRUE, preview |-> None, warnings |-> <<>>]

(***************************************************************************)
(* Prices as the remote sides supply them: a JavaScript value is undefined,*)
(* a number or a string (a sequence of tokens).                            *)
(***************************************************************************)
JsUndefined == [t |-> "undefined"]
JsNumber(n) == [t |-> "number", v |-> n]
JsString(str) == [t |-> "string", v |-> str]

\* Runs of digits in a string, with their value and their number of digits
Numerals == {"1999", "500"}

NumeralValue(tok) == IF tok = "1999" THEN 1999 ELSE 500

\* ten to the number of digits of the numeral
NumeralShift(tok) == IF tok = "1999" THEN 10000 ELSE 1000

\* Runs of digits and dots that are no number ("1.2.3")
MalformedNumerals == {"1.2.3"}

RECURSIVE DigitsValue(_)
\* the number written by numerals one after the other
DigitsValue(toks) ==
  IF toks = <<>> THEN 0
  ELSE LET last == toks[Len(toks)]
       IN  DigitsValue(SubSeq(toks, 1, Len(toks) - 1)) * NumeralShift(last)
           + NumeralValue(last)

\* Number(str.replace(/[^0-9.]/g, '')): None for NaN; Number('') is 0
NumberOfDigits(str) ==
  LET cleaned == SelectSeq(str, LAMBDA tok : tok \in Numerals \cup MalformedNumerals)
  IN  IF \E i \in 1..Len(cleaned) : cleaned[i] \in MalformedNumerals THEN None
      ELSE Some(Num(DigitsValue(cleaned)))

\* Number(str) of a whole string: None for NaN
NumberOfString(str) ==
  IF str = <<>> THEN Some(Num(0))
  ELSE IF Len(str) = 1 /\ str[1] \in Numerals THEN Some(Num(NumeralValue(str[1])))
  ELSE IF Len(str) = 2 /\ str[1] = "-" /\ str[2] \in Numerals
  THEN Some(Num(0 - NumeralValue(str[2])))
  ELSE None

\* extractFromHtml.ts lines 74-80
normalizePrice(raw) ==
  IF raw.t = "undefined" THEN None
  ELSE IF raw.t = "number" THEN Some(Num(raw.v))
  ELSE NumberOfDigits(raw.v)

\* extractFromDiffbot.ts line 41
DiffbotPrice(offerPrice) ==
  IF offerPrice.t = "number" THEN Some(Num(offerPrice.v))
  ELSE LET n == IF offerPrice.t = "string" THEN NumberOfString(offerPrice.v) ELSE None
       IN  IF n = None \/ n = Some(Num(0)) THEN None ELSE n

\* ListHeader.tsx lines 428-435
normalizeNum(v) ==
  IF v.t = "number" THEN Some(Num(v.v))
  ELSE IF v.t = "string" THEN NumberOfDigits(v.v)
  ELSE None

\* ListHeader.tsx lines 453-472: the fields in the order of the call
PriceFieldOrder ==
  <<"buybox_price_value", "buybox_price", "current_price", "sale_price", "offer_price",
    "price", "price_value", "price_raw", "price_str", "buybox_price_str",
    "original_price", "list_price", "list_price_value", "retail_price",
    "retail_price_value", "was_price", "was_price_value", "current_price_value">>

\* ListHeader.tsx lines 437-451
extractPrice(vals) ==
  LET nums == SelectSeq([i \in 1..Len(vals) |-> normalizeNum(vals[i])],
                        LAMBDA n : n # None)
      \* nums[Math.floor(nums.length / 2)] of the sorted numbers
      k == Len(nums) \div 2
      below(x) == Cardinality({i \in 1..Len(nums) : nums[i][1][1] < x[1][1]})
      upTo(x) == Cardinality({i \in 1..Len(nums) : nums[i][1][1] <= x[1][1]})
      median == CHOOSE x \in {nums[i] : i \in 1..Len(nums)} : below(x) <= k /\ k < upTo(x)
  IN  IF Len(nums) > 0 THEN nums[1]
      ELSE IF Len(nums) = 0 THEN None
      ELSE median

\* ListHeader.tsx lines 453-472 and 493
BrightPrice(first) ==
  extractPrice([i \in 1..Len(PriceFieldOrder) |-> first[PriceFieldOrder[i]]])

OptTrim(o) == IF o = None THEN None ELSE Some(Trim(o[1]))

\* extractFromHtml.ts lines 205-300.  page.kind: "fetch_error" (fetch or
\* res.text() rejects, the 12 s abort included), "type_error" (a JSON-LD name,
\* description or price that is no string: .trim() / .replace() throw outside
\* the try block) or "html".
extractFromHtml(url, page) ==
  CASE page.kind = "fetch_error" ->
         Stage(Some(BarePreview(url, "html", <<"HTML fetch failed">>)), <<"HTML fetch failed">>)
    [] page.kind = "type_error" -> Throws
    [] OTHER ->
         Stage(Some([url |-> url,
                     canonicalUrl |-> page.canonicalUrl,
                     title |-> OptTrim(page.title),
                     description |-> OptTrim(page.description),
                     price |-> normalizePrice(page.price),
                     currency |-> page.currency,
                     image |-> page.image,
                     images |-> Some(IF Truthy(page.image) THEN <<page.image[1]>> ELSE <<>>),
                     availability |-> page.availability,
                     source |-> "html",
                     confidence |-> 0,
                     warnings |-> <<>>]),
               <<>>)

\* extractFromDiffbot.ts lines 6-59.  reply.kind: "throws" (fetch or
\* res.json() rejects, the 20 s abort included), "not_ok", "no_objects",
\* "object".
extractFromDiffbot(url, env, reply) ==
  IF ~env.diffbotToken THEN Stage(None, <<"Diffbot token not configured">>)
  ELSE CASE reply.kind = "throws" -> Stage(None, <<"Diffbot fetch error">>)
         [] reply.kind = "not_ok" -> Stage(None, <<"Diffbot request failed">>)
         [] reply.kind = "no_objects" -> Stage(None, <<"Diffbot returned no objects">>)
         [] OTHER ->
              LET obj == reply.obj
              IN  Stage(Some([url |-> url,
                              canonicalUrl |-> obj.pageUrl,
                              title |-> obj.title,
                              description |-> obj.text,
                              price |-> DiffbotPrice(obj.offerPrice),
                              currency |-> obj.offerCurrency,
                              image |-> IF Len(obj.images) > 0 /\ obj.images[1] # <<>>
                                        THEN Some(obj.images[1]) ELSE None,
                              images |-> Some(SelectSeq(obj.images, LAMBDA i : i # <<>>)),
                              availability |-> obj.availability,
                              source |-> "diffbot",
                              confidence |-> 0,
                              warnings |-> <<>>]),
                        <<>>)

\* ListHeader.tsx lines 354-362
getDatasetId(hostname, env) ==
  IF HostIncludes(hostname, "amazon.") THEN env.amazonDatasetId
  ELSE IF HostIncludes(hostname, "walmart.") THEN env.walmartDatasetId
  ELSE FALSE

\* ListHeader.tsx lines 364-513.  run.trigger: "throws" (fetch rejects),
\* "not_ok", "bad_json" (triggerRes.json() rejects), "no_id", "ok";
\* run.poll: "throws" (a progress fetch rejects), "never" (no poll reports
\* completed before the ceiling), "completed"; run.download: "throws",
\* "not_ok", "bad_json", "empty", "record".  No fetch is inside a try block,
\* and none has an abort signal: "no_answer" is a fetch whose server never
\* answers.
extractFromBrightData(url, hostname, env, run) ==
  IF ~env.brightDataKey \/ ~getDatasetId(hostname, env)
  THEN Stage(None, <<"Bright Data not configured for this host">>)
  ELSE CASE run.trigger = "no_answer" -> Hangs
         [] run.trigger \in {"throws", "bad_json"} -> Throws
         [] run.trigger = "not_ok" -> Stage(None, <<"Bright Data trigger failed">>)
         [] run.trigger = "no_id" -> Stage(None, <<"Bright Data snapshot id missing">>)
         [] run.poll = "no_answer" -> Hangs
         [] run.poll = "throws" -> Throws
         [] run.poll = "never" -> Stage(None, <<"Bright Data did not complete in time">>)
         [] run.download = "no_answer" -> Hangs
         [] run.download \in {"throws", "bad_json"} -> Throws
         [] run.download = "not_ok" -> Stage(None, <<"Bright Data download failed">>)
         [] run.download = "empty" -> Stage(None, <<"Bright Data returned empty dataset">>)
         [] OTHER ->
              LET first == run.first
              IN  Stage(Some([url |-> url,
                              canonicalUrl |-> first.url,
                              title |-> first.title,
                              description |-> first.description,
                              price |-> BrightPrice(first),
                              currency |-> first.currency,
                              image |-> first.image,
                              images |-> first.images,
                              availability |-> first.availability,
                              source |-> "brightdata",
                              confidence |-> 0,
                              warnings |-> <<>>]),
                        <<>>)

(***************************************************************************)
(* route.ts: cache and POST                                                *)
(***************************************************************************)
\* A lookup that does not look at expiresAt
GetCachedIgnoringExpiry(store, hash, t) ==
  IF hash \notin DOMAIN store THEN None
  ELSE IF isWeakPreview(store[hash].preview) THEN None
  ELSE Some(store[hash].preview)

\* lines 56-68, read at clock t
getCachedPreview(store, hash, t) ==
  IF hash \notin DOMAIN store THEN None
  ELSE IF store[hash].expiresAt < t THEN None
  ELSE IF isWeakPreview(store[hash].preview) THEN None
  ELSE Some(store[hash].preview)

\* lines 70-86: the document cachePreview hands to ref.set, built at clock t
CacheEntry(hash, normalizedUrl, preview, t) ==
  [normalizedUrl |-> normalizedUrl,
   hash |-> hash,
   preview |-> StripUndefined(preview),
   createdAt |-> t,
   expiresAt |-> t + TTL_DAYS * HoursPerDay]

\* NextResponse.json(preview): JSON leaves out the undefined fields
JsonResponse(preview) == [status |-> 200, body |-> StripUndefined(preview)]

\* lines 20-34.  A header is <<>> (absent) or <<scheme, token>>.
\* adminAuth.verifyIdToken resolves to the uid of a valid token.
ValidTokens == {"tok_u1", "tok_u2"}

UidOf(token) == IF token = "tok_u1" THEN "u1" ELSE "u2"

verifyAuth(header) ==
  LET token == IF Len(header) = 2 /\ header[1] = "Bearer " /\ header[2] # ""
               THEN Some(header[2]) ELSE None
  IN  IF token = None THEN [ok |-> FALSE, message |-> "missing_token"]
      ELSE IF token[1] \notin ValidTokens THEN [ok |-> FALSE, message |-> "invalid_token"]
      ELSE [ok |-> TRUE, uid |-> UidOf(token[1])]

\* line 152
RestrictedHost(hostname) ==
  HostIncludes(hostname, "amazon.") \/ HostIncludes(hostname, "walmart.")

\* A guard that lets Stage 2 run for every preview
Stage2Always(preview) == TRUE

\* line 146: the guard of Stage 2, on the scored output of Stage 1
Stage2Wanted(preview) == needsBetterData(preview, 75)

\* A guard that does not look at the hostname
Stage3OnAnyHost(preview, hostname) == needsBetterData(preview, 95)

\* lines 152-153: the guard of Stage 3, on the preview current before it
Stage3Wanted(preview, hostname) ==
  RestrictedHost(hostname) /\ needsBetterData(preview, 95)

\* line 143
ScoreStage1(preview) == scorePreview(preview)

\* A check that lets every preview through
TotalFailureNever(preview) == FALSE

\* line 160
TotalFailure(preview) ==
  ~Truthy(preview.title) /\ ~Truthy(preview.image) /\ preview.price = None

\* a stage that was not called
NotCalled == Stage(None, <<>>)

\* line 146: POST calls Stage 2 for this result of Stage 1
CallsStage2(html) == ~html.threw /\ Stage2Wanted(ScoreStage1(html.preview[1]))

\* A Stage 2 step that merges without scoring again
Current2Unscored(html, diffbot) ==
  IF CallsStage2(html)
  THEN mergePreviews(ScoreStage1(html.preview[1]), diffbot.preview)
  ELSE ScoreStage1(html.preview[1])

\* lines 143-149: the preview current after the Stage 2 step
Current2(html, diffbot) ==
  IF CallsStage2(html)
  THEN scorePreview(mergePreviews(ScoreStage1(html.preview[1]), diffbot.preview))
  ELSE ScoreStage1(html.preview[1])

\* lines 152-153: POST calls Stage 3 for these results of Stages 1 and 2
CallsStage3(html, diffbot, hostname) ==
  ~html.threw /\ Stage3Wanted(Current2(html, diffbot), hostname)

\* lines 141-157: the three stages, on the results html, diffbot and bright
\* of the adapters.  The result records the run: the stages called, the
\* output of Stage 1 as returned (raw1) and as scored (scored1), the preview
\* current after the Stage 2 step (current2), the final preview unless an
\* exception left POST (crashed), and the warnings of the calls of Stages 2
\* and 3 that returned a null preview (soft); hung when the call of Stage 3
\* never returns.
RunStages(hostname, html, diffbot, bright) ==
  IF html.threw
  THEN [crashed |-> TRUE, invoked |-> {"stage1"}, raw1 |-> None, scored1 |-> None,
        current2 |-> None, preview |-> None, soft |-> <<>>, hung |-> FALSE]
  ELSE LET want2 == CallsStage2(html)
           want3 == CallsStage3(html, diffbot, hostname)
           p2 == Current2(html, diffbot)
       IN  [crashed |-> want3 /\ bright.threw,
            invoked |-> {"stage1"} \cup (IF want2 THEN {"stage2"} ELSE {})
                        \cup (IF want3 THEN {"stage3"} ELSE {}),
            raw1 |-> html.preview,
            scored1 |-> Some(ScoreStage1(html.preview[1])),
            current2 |-> Some(p2),
            preview |-> IF ~want3 THEN Some(p2)
                        ELSE IF bright.threw \/ bright.hung THEN None
                        ELSE Some(scorePreview(mergePreviews(p2, bright.preview))),
            soft |-> (IF want2 /\ diffbot.preview = None THEN diffbot.warnings ELSE <<>>)
                     \o (IF want3 /\ ~bright.threw /\ bright.preview = None
                         THEN bright.warnings ELSE <<>>),
            hung |-> want3 /\ bright.hung]

\* POST returns: the response is sent and its local variables are gone
Done(r, response) ==
  [req EXCEPT ![r].pc = "done", ![r].resp = Some(response), ![r].pending = None]

\* lines 95-103
Auth(r, header) ==
  /\ req[r].pc = "auth"
  /\ LET a == verifyAuth(header)
     IN  req' = IF a.ok THEN [req EXCEPT ![r].pc = "body", ![r].userId = a.uid]
                ELSE IF a.message \in {"missing_token", "invalid_token"}
                THEN Done(r, buildError(401, "Unauthorized"))
                ELSE Done(r, buildError(500, "Auth verification failed"))
  /\ UNCHANGED <<now, rateLimits, cache, allowedIn, served, nIn, nOut, polling>>

\* A handler that counts the request against the quota before validating it
ParseBodyAfterCounting(r, body) ==
  /\ req[r].pc = "body"
  /\ LET id == RateLimitDocId(req[r].userId, Bucket(now))
         bad == body.kind # "url" \/ ~normalizeUrl(body.url).ok
     IN  /\ rateLimits' = IF bad
                          THEN [k \in DOMAIN rateLimits \cup {id} |->
                                  IF k = id THEN CountOf(rateLimits, id) + 1 ELSE rateLimits[k]]
                          ELSE rateLimits
         /\ req' = IF bad THEN Done(r, buildError(400, "Invalid URL"))
                   ELSE [req EXCEPT ![r].pc = "ratelimit", ![r].norm = normalizeUrl(body.url)]
  /\ UNCHANGED <<now, cache, allowedIn, served, nIn, nOut, polling>>

\* lines 105-127.  body.kind: "bad_json" (req.json() rejects), "no_url"
\* (url missing, empty or no string), "url".
ParseBody(r, body) ==
  /\ req[r].pc = "body"
  /\ req' = IF body.kind = "bad_json" THEN Done(r, buildError(400, "Invalid JSON"))
            ELSE IF body.kind = "no_url" THEN Done(r, buildError(400, "Missing url"))
            ELSE LET norm == normalizeUrl(body.url)
                 IN  IF ~norm.ok THEN Done(r, buildError(400, "Invalid URL"))
                     ELSE [req EXCEPT ![r].pc = "ratelimit", ![r].norm = norm]
  /\ UNCHANGED <<now, rateLimits, cache, allowedIn, served, nIn, nOut, polling>>

\* A lookup whose result is not looked at
CacheLookupIgnored(r) ==
  /\ req[r].pc = "cache_lookup"
  /\ req' = [req EXCEPT ![r].pc = "stage1",
                        ![r].hit = getCachedPreview(cache, req[r].norm.hash, now) # None]
  /\ UNCHANGED <<now, rateLimits, cache, allowedIn, served, nIn, nOut, polling>>

\* lines 136-139
CacheLookup(r) ==
  /\ req[r].pc = "cache_lookup"
  /\ LET cached == getCachedPreview(cache, req[r].norm.hash, now)
     IN  req' = IF cached # None
                THEN [Done(r, [status |-> 200, body |-> cached[1]]) EXCEPT ![r].hit = TRUE]
                ELSE [req EXCEPT ![r].pc = "stage1"]
  /\ UNCHANGED <<now, rateLimits, cache, allowedIn, served, nIn, nOut, polling>>

\* lines 141-164, up to the await of ref.set, on the results html, diffbot
\* and bright of the adapters.  The stages read and write nothing the
\* requests share, so the awaits between them are not interleaved with the
\* other requests.
Extract(r, html, diffbot, bright) ==
  /\ req[r].pc = "stage1"
  /\ LET ran == RunStages(req[r].norm.hostname, html, diffbot, bright)
         q == [req EXCEPT ![r].run = ran]
     IN  req' = IF ran.crashed THEN [q EXCEPT ![r].pc = "crashed"]
                ELSE IF ran.hung THEN [q EXCEPT ![r].pc = "stage3_pending"]
                ELSE IF TotalFailure(ran.preview[1])
                THEN [q EXCEPT ![r].pc = "done",
                               ![r].resp = Some(buildError(500, "Unable to retrieve product data"))]
                ELSE [q EXCEPT ![r].pc = "cache_write",
                        ![r].pending = Some(CacheEntry(req[r].norm.hash, req[r].norm.normalized,
                                                       ran.preview[1], now))]
  /\ UNCHANGED <<now, rateLimits, cache, allowedIn, served, nIn, nOut, polling>>

\* A set that merges into the stored document: the fields of the old preview
\* that the new one does not name are kept
SetDocumentMerging(store, id, data) ==
  [h \in DOMAIN store \cup {id} |->
     IF h # id THEN store[h]
     ELSE IF id \notin DOMAIN store THEN data
     ELSE [data EXCEPT !.preview =
             [k \in DOMAIN store[id].preview \cup DOMAIN data.preview |->
                IF k \in DOMAIN data.preview THEN data.preview[k]
                ELSE store[id].preview[k]]]]

\* lines 80-86: ref.set(data) without options replaces the whole document
SetDocument(store, id, data) ==
  [h \in DOMAIN store \cup {id} |-> IF h = id THEN data ELSE store[h]]

\* A write that leaves an unexpired entry with title, image, price and
\* currency in place
CacheWriteKeepingComplete(r) ==
  /\ req[r].pc = "cache_write"
  /\ LET entry == req[r].pending[1]
     IN  cache' = IF getCachedPreview(cache, entry.hash, now) # None THEN cache
                  ELSE SetDocument(cache, entry.hash, entry)
  /\ req' = [Done(r, JsonResponse(req[r].run.preview[1])) EXCEPT ![r].wrote = TRUE]
  /\ UNCHANGED <<now, rateLimits, allowedIn, served, nIn, nOut, polling>>

\* lines 80-86 and 166: ref.set replaces the document, then POST answers
CacheWrite(r) ==
  /\ req[r].pc = "cache_write"
  /\ LET entry == req[r].pending[1]
     IN  cache' = SetDocument(cache, entry.hash, entry)
  /\ req' = [Done(r, JsonResponse(req[r].run.preview[1])) EXCEPT ![r].wrote = TRUE]
  /\ UNCHANGED <<now, rateLimits, allowedIn, served, nIn, nOut, polling>>

\* lines 130, 136 and 164: POST awaits checkRateLimit, getCachedPreview and
\* cachePreview outside any try block; when runTransaction, ref.get or ref.set
\* rejects, the exception leaves POST and no response is built
StoreRejects(r) ==
  /\ req[r].pc \in {"tx_get", "tx_commit", "cache_lookup", "cache_write"}
  /\ req' = [req EXCEPT ![r].pc = "store_error", ![r].snap = None, ![r].pending = None]
  /\ UNCHANGED <<now, rateLimits, cache, allowedIn, served, nIn, nOut, polling>>

(***************************************************************************)
(* The pipeline: MaxRequests requests, one after the other, each handled   *)
(* by POST from authentication to its answer.  The hours: 1 January 11:00  *)
(* and, 30 days and one hour later, 31 January 12:00.                      *)
(***************************************************************************)
MaxRequests == 2

\* the handler of the requests
Requests == {1}

PipelineHours == {11, 732}

AuthHeaders ==
  {<<>>, <<"Basic ", "tok_u1">>, <<"Bearer ", "">>, <<"Bearer ", "forged">>,
   <<"Bearer ", "tok_u1">>}

RequestUrls ==
  {<<"not", " ", "a", " ", "url">>,
   <<"example.", "com", "/", "a", "?", "utm_source", "=", "x">>,
   <<"http:", "//", "WWW.", "Amazon.", "com", "/", "a", "/", "b0abcdefgh">>,
   <<"https:", "//", "www.", "walmart.", "com", "/", "a">>}

Bodies ==
  {[kind |-> "bad_json"], [kind |-> "no_url"]}
  \cup {[kind |-> "url", url |-> u] : u \in RequestUrls}

TitleText == <<"Wireless", " ", "Mouse">>
DescriptionText == <<"Ergonomic">>
ImageUrl == <<"https://i/1.png">>
Usd == <<"USD">>

\* the values an adapter resolved from a page, an object or a record
Found(title, description, image, price, currency) ==
  [title |-> title, description |-> description, image |-> image, price |-> price,
   currency |-> currency]

FullFound ==
  Found(Some(TitleText), Some(DescriptionText), Some(ImageUrl), Some(Num(1999)), Some(Usd))

\* what Stage 1 may find on a page
PageFound ==
  {FullFound,
   Found(Some(<<"Amazon.com:", " ">> \o TitleText), Some(DescriptionText), Some(ImageUrl),
         Some(Num(1999)), Some(Usd)),
   Found(Some(TitleText), None, Some(ImageUrl), Some(Num(1999)), Some(Usd)),
   Found(Some(TitleText), None, None, None, None)}

\* what Stage 2 or Stage 3 may find
OverlayFound ==
  {FullFound,
   Found(None, None, Some(ImageUrl), Some(Num(1999)), None)}

\* a price as the remote side writes it: a number, or nothing
RawPrice(o) == IF o = None THEN JsUndefined ELSE JsNumber(o[1][1])

PriceFieldNames == {PriceFieldOrder[i] : i \in 1..Len(PriceFieldOrder)}

\* a dataset record without any price field
NoPrices == [k \in PriceFieldNames |-> JsUndefined]

PageSamples ==
  {[kind |-> "fetch_error"], [kind |-> "type_error"]}
  \cup {[kind |-> "html", canonicalUrl |-> None, title |-> f.title,
         description |-> f.description, image |-> f.image,
         price |-> RawPrice(f.price),
         currency |-> f.currency, availability |-> None] : f \in PageFound}

EnvSamples ==
  {[diffbotToken |-> TRUE, brightDataKey |-> TRUE, amazonDatasetId |-> TRUE,
    walmartDatasetId |-> TRUE],
   [diffbotToken |-> FALSE, brightDataKey |-> TRUE, amazonDatasetId |-> TRUE,
    walmartDatasetId |-> FALSE]}

\* objects[0] || {}: a first object with none of the fields read
NothingFound == Found(None, None, None, None, None)

DiffbotReplies ==
  {[kind |-> "throws"], [kind |-> "not_ok"], [kind |-> "no_objects"]}
  \cup {[kind |-> "object",
         obj |-> [pageUrl |-> None, title |-> f.title, text |-> f.description,
                  offerPrice |-> RawPrice(f.price), offerCurrency |-> f.currency,
                  images |-> IF f.image = None THEN <<>> ELSE <<f.image[1]>>,
                  availability |-> None]] : f \in OverlayFound \cup {NothingFound}}

BrightRun(trigger, poll, download) ==
  [trigger |-> trigger, poll |-> poll, download |-> download]

BrightRuns ==
  {BrightRun("throws", "never", "empty"), BrightRun("bad_json", "never", "empty"),
   BrightRun("not_ok", "never", "empty"), BrightRun("no_id", "never", "empty"),
   BrightRun("ok", "throws", "empty"), BrightRun("ok", "never", "empty"),
   BrightRun("ok", "completed", "throws"), BrightRun("ok", "completed", "bad_json"),
   BrightRun("ok", "completed", "not_ok"), BrightRun("ok", "completed", "empty"),
   BrightRun("no_answer", "never", "empty"), BrightRun("ok", "no_answer", "empty"),
   BrightRun("ok", "completed", "no_answer")}
  \cup {[trigger |-> "ok", poll |-> "completed", download |-> "record",
         first |-> [NoPrices EXCEPT !["price"] = RawPrice(f.price)]
                   @@ [url |-> None, title |-> f.title, description |-> f.description,
                       currency |-> f.currency, image |-> f.image,
                       images |-> None, availability |-> None]] : f \in OverlayFound}

\* what the adapters may return for a URL
Stage1Results(url) == {extractFromHtml(url, page) : page \in PageSamples}

Stage2Results(url) ==
  {extractFromDiffbot(url, env, reply) : env \in EnvSamples, reply \in DiffbotReplies}

Stage3Results(url, hostname) ==
  {extractFromBrightData(url, hostname, env, run) : env \in EnvSamples, run \in BrightRuns}

\* POST runs the stages on whatever the adapters it calls return
ExtractAny(r) ==
  /\ req[r].pc = "stage1"
  /\ LET url == req[r].norm.normalized
         hostname == req[r].norm.hostname
     IN  \E html \in Stage1Results(url) :
           \E diffbot \in IF CallsStage2(html) THEN Stage2Results(url) ELSE {NotCalled} :
             \E bright \in IF CallsStage3(html, diffbot, hostname)
                            THEN Stage3Results(url, hostname) ELSE {NotCalled} :
               Extract(r, html, diffbot, bright)

\* the store before the requests of the model: user u1 is one request short
\* of the quota of the first hour, the cache is empty
Init ==
  /\ now = 11
  /\ rateLimits = [k \in {RateLimitDocId("u1", Bucket(11))} |-> RATE_LIMIT_PER_HOUR - 1]
  /\ allowedIn = [k \in Users \X PipelineHours |->
                    IF k = <<"u1", 11>> THEN RATE_LIMIT_PER_HOUR - 1 ELSE 0]
  /\ cache = <<>>
  /\ req = [r \in Requests |-> FreshRequest]
  /\ served = 1
  /\ nIn = <<>> /\ nOut = <<>>
  /\ polling = None

\* The request has been answered, or an exception has left POST; the next
\* request arrives
NextArrival(r) ==
  /\ req[r].pc \in {"done", "crashed", "store_error"}
  /\ served < MaxRequests
  /\ req' = [req EXCEPT ![r] = FreshRequest]
  /\ served' = served + 1
  /\ UNCHANGED <<now, rateLimits, cache, allowedIn, nIn, nOut, polling>>

Next ==
  \/ \E r \in Requests :
       \/ \E header \in AuthHeaders : Auth(r, header)
       \/ \E body \in Bodies : ParseBody(r, body)
       \/ CheckRateLimitBegin(r)
       \/ TxGet(r)
       \/ TxCommit(r)
       \/ PostRateLimit(r)
       \/ CacheLookup(r)
       \/ ExtractAny(r)
       \/ CacheWrite(r)
       \/ StoreRejects(r)
       \/ NextArrival(r)
  \/ Tick(PipelineHours)

Spec == Init /\ [][Next]_vars

\* C3: the cache lookup finds a preview exactly when the store holds an entry
\* under the hash whose expiresAt has not passed and whose preview has title,
\* image, price and currency (null when absent, expired or weak); the cached
\* response carries the preview of that entry.
C3_CachedOnlyFreshAndComplete ==
  [][\A r \in DOMAIN req :
       (req[r].pc = "cache_lookup" /\ req'[r].pc \in {"done", "stage1"}) =>
         LET h == req[r].norm.hash
             usable ==
               /\ h \in DOMAIN cache
               /\ cache[h].expiresAt >= now
               /\ \A f \in {"title", "image", "currency"} :
                    /\ f \in DOMAIN cache[h].preview
                    /\ cache[h].preview[f] # None
                    /\ cache[h].preview[f][1] # <<>>
               /\ "price" \in DOMAIN cache[h].preview
               /\ cache[h].preview.price # None
         IN  /\ req'[r].hit = usable
             /\ usable => /\ req'[r].pc = "done"
                          /\ req'[r].resp = Some([status |-> 200, body |-> cache[h].preview])
             /\ ~usable => req'[r].pc = "stage1" /\ req'[r].resp = None]_vars

\* The store holds an expired entry with all four fields under the hash of a
\* request, and the lookup of the request has missed.
C3_Witness ==
  \E r \in DOMAIN req :
    /\ req[r].pc = "stage1"
    /\ req[r].norm.hash \in DOMAIN cache
    /\ cache[req[r].norm.hash].expiresAt < now
    /\ {"title", "image", "price", "currency"} \subseteq DOMAIN cache[req[r].norm.hash].preview

\* C4: a request whose cache lookup hit is answered from the cache: no stage
\* has been invoked for it and it writes nothing to the cache.
C4_HitSkipsStages ==
  \A r \in DOMAIN req :
    req[r].hit =>
      /\ req[r].pc = "done"
      /\ req[r].resp # None /\ req[r].resp[1].status = 200
      /\ req[r].run.invoked = {}
      /\ req[r].pending = None
      /\ ~req[r].wrote

\* The second request has been answered from the entry the first one wrote.
C4_Witness ==
  \E r \in DOMAIN req :
    /\ req[r].hit /\ req[r].pc = "done"
    /\ served = MaxRequests
    /\ req[r].resp[1].body = cache[req[r].norm.hash].preview

\* C5: every preview in the cache has at least one of title, image, price; a
\* run whose final preview has none of them is answered with the extraction
\* failure and writes nothing; a run that has written had one of them.
C5_CacheOnlyUsefulPreviews ==
  /\ \A h \in DOMAIN cache :
       \E f \in {"title", "image", "price"} :
         /\ f \in DOMAIN cache[h].preview
         /\ cache[h].preview[f] # None
         /\ cache[h].preview[f][1] # <<>>
  /\ \A r \in DOMAIN req :
       req[r].run.preview # None =>
         LET p == req[r].run.preview[1]
             none == /\ p.title = None \/ p.title[1] = <<>>
                     /\ p.image = None \/ p.image[1] = <<>>
                     /\ p.price = None
         IN  /\ none => /\ req[r].pc = "done"
                        /\ req[r].resp =
                             Some([status |-> 500,
                                   body |-> [error |-> "Unable to retrieve product data"]])
                        /\ req[r].pending = None
                        /\ ~req[r].wrote
             /\ req[r].wrote => ~none

\* Stages 1 and 2 have run, the final preview has no title, image or price,
\* and the request has been answered with the failure.
C5_Witness ==
  \E r \in DOMAIN req :
    /\ req[r].pc = "done"
    /\ req[r].run.invoked = {"stage1", "stage2"}
    /\ req[r].run.preview # None
    /\ req[r].run.preview[1].title = None
    /\ req[r].run.preview[1].image = None
    /\ req[r].run.preview[1].price = None
    /\ req[r].resp[1].status = 500

\* C6: no failure inside a stage aborts the request: every request that
\* started the stages reaches the final check with a preview.
C6_StageFailuresNeverAbort ==
  \A r \in DOMAIN req :
    /\ req[r].pc # "crashed"
    /\ ((req[r].run.invoked # {} /\ ~req[r].run.hung) => req[r].run.preview # None)

\* C7: after a cache miss Stage 1 has run; the confidence of its scored output
\* is the weighted sum over the fields Stage 1 returned, and Stage 2 has run
\* exactly when that confidence is below 0.75 or one of title, image, price,
\* currency is missing.
C7_Stage2IffNeedsBetterData ==
  \A r \in DOMAIN req :
    LET missed == \/ req[r].pc \in {"cache_write", "crashed"}
                  \/ /\ req[r].pc = "done" /\ ~req[r].hit
                     /\ req[r].resp[1].status \in {200, 500}
        present(p, f) == p[f] # None /\ p[f][1] # <<>>
    IN  /\ missed => "stage1" \in req[r].run.invoked
        /\ req[r].run.raw1 # None =>
             LET raw == req[r].run.raw1[1]
                 scored == req[r].run.scored1[1]
                 sum == (IF present(raw, "title") THEN 35 ELSE 0)
                        + (IF present(raw, "image") THEN 25 ELSE 0)
                        + (IF raw.price # None /\ present(raw, "currency") THEN 25 ELSE 0)
                        + (IF present(raw, "description") THEN 10 ELSE 0)
             IN  /\ scored.confidence = sum
                 /\ \A f \in {"title", "image", "price", "currency"} : scored[f] = raw[f]
                 /\ "stage2" \in req[r].run.invoked
                      <=> \/ scored.confidence < 75
                          \/ ~present(scored, "title") \/ ~present(scored, "image")
                          \/ scored.price = None \/ ~present(scored, "currency")

\* Stage 1 found every field but the description (confidence 0.85) and
\* Stage 2 has not run.
C7_Witness ==
  \E r \in DOMAIN req :
    /\ req[r].run.scored1 # None
    /\ req[r].run.scored1[1].confidence = 85
    /\ "stage2" \notin req[r].run.invoked

C9_RejectedLeavesStoresUnchanged ==
  [][\A r \in DOMAIN req :
       (req[r].resp = None /\ req'[r].resp # None /\ req'[r].resp[1].status \in {400, 401})
         => /\ rateLimits' = rateLimits
            /\ cache' = cache
            /\ ~req'[r].rlChecked
            /\ req'[r].run.invoked = {}
            /\ ~req'[r].wrote]_vars

\* After a request that was counted and cached, the next one has been
\* rejected for its URL.
C9_Witness ==
  \E r \in DOMAIN req :
    /\ req[r].pc = "done"
    /\ req[r].resp[1] = buildError(400, "Invalid URL")
    /\ served = MaxRequests
    /\ cache # <<>>
    /\ \E id \in DOMAIN rateLimits : rateLimits[id] = RATE_LIMIT_PER_HOUR

\* C14: in every run, the preview read by needsBetterData at 0.75 is
\* scorePreview of the output of Stage 1; the one read at 0.95 is that same
\* preview if Stage 2 was not called and else scorePreview of its merge with
\* a result of Stage 2; the final preview is the latter if Stage 3 was not
\* called and else scorePreview of its merge with a result of Stage 3; and
\* the preview written to the cache and sent is the final one.
C14_ScoredAfterEveryMerge ==
  \A r \in DOMAIN req :
    req[r].run.raw1 # None =>
      LET ran == req[r].run
          url == req[r].norm.normalized
          scored == ran.scored1[1]
          cur == ran.current2[1]
      IN  /\ scored = scorePreview(ran.raw1[1])
          /\ IF "stage2" \in ran.invoked
             THEN \E d \in Stage2Results(url) :
                    cur = scorePreview(mergePreviews(scored, d.preview))
             ELSE cur = scored
          /\ ran.preview # None =>
               /\ IF "stage3" \in ran.invoked
                  THEN \E b \in Stage3Results(url, req[r].norm.hostname) :
                         /\ ~b.threw
                         /\ ran.preview[1] = scorePreview(mergePreviews(cur, b.preview))
                  ELSE ran.preview[1] = cur
               /\ req[r].pending # None =>
                    req[r].pending[1].preview = StripUndefined(ran.preview[1])
               /\ req[r].wrote =>
                    /\ cache[req[r].norm.hash].preview = StripUndefined(ran.preview[1])
                    /\ req[r].resp[1].body = StripUndefined(ran.preview[1])

\* All three stages have run, only Stage 3 added fields, and the final
\* preview has been written with its confidence of 0.95.
C14_Witness ==
  \E r \in DOMAIN req :
    /\ req[r].wrote
    /\ req[r].run.invoked = {"stage1", "stage2", "stage3"}
    /\ req[r].run.scored1[1].confidence = 35
    /\ req[r].run.current2[1].confidence = 35
    /\ cache[req[r].norm.hash].preview.confidence = 95

\* C16: the step that writes a final preview p with title, image, price and
\* currency, cachePreview having been called at the present clock, leaves the store such that getCachedPreview of its hash, at the
\* same clock, returns p without its undefined fields, which is also the body
\* sent; and a lookup at the clock of the write of such an entry hits and is
\* answered with the same body.
C16_CacheRoundTrip ==
  [][\A r \in DOMAIN req :
       LET h == req[r].norm.hash
           optional == {"canonicalUrl", "title", "description", "price", "currency",
                        "image", "images", "availability"}
       IN  /\ (~req[r].wrote /\ req'[r].wrote /\ req[r].pending[1].createdAt = now) =>
                LET p == req[r].run.preview[1]
                    sent == [k \in {f \in DOMAIN p : f \notin optional \/ p[f] # None} |-> p[k]]
                    complete == /\ p.title # None /\ p.title[1] # <<>>
                                /\ p.image # None /\ p.image[1] # <<>>
                                /\ p.currency # None /\ p.currency[1] # <<>>
                                /\ p.price # None
                IN  complete => /\ getCachedPreview(cache', h, now') = Some(sent)
                                /\ req'[r].resp[1] = [status |-> 200, body |-> sent]
           /\ (/\ req[r].pc = "cache_lookup" /\ req'[r].pc \in {"done", "stage1"}
               /\ h \in DOMAIN cache
               /\ cache[h].createdAt = now
               /\ {"title", "image", "price", "currency"} \subseteq DOMAIN cache[h].preview)
                => /\ req'[r].hit
                   /\ req'[r].resp[1] = [status |-> 200, body |-> cache[h].preview]]_vars

\* The second request has been answered from the entry the first one wrote
\* at the same clock.
C16_Witness ==
  \E r \in DOMAIN req :
    /\ req[r].hit
    /\ served = MaxRequests
    /\ cache[req[r].norm.hash].createdAt = now
    /\ req[r].resp[1].body = cache[req[r].norm.hash].preview
    /\ "description" \notin DOMAIN req[r].resp[1].body

\* C17: the source of a fresh preview is the tag of the last stage that
\* supplied at least one data field: brightdata if Stage 3 ran and the final
\* preview is the merge with a Stage 3 result holding data; else diffbot if
\* Stage 2 ran and its step merged a Stage 2 result holding data; else html.
C17_SourceIsLastContributor ==
  \A r \in DOMAIN req :
    (req[r].run.preview # None /\ req[r].pc \in {"cache_write", "done"}
     /\ (req[r].pc = "done" => req[r].wrote)) =>
      LET ran == req[r].run
          url == req[r].norm.normalized
          final == ran.preview[1]
          hasData(o) ==
            \/ \E f \in {"canonicalUrl", "title", "description", "currency", "image",
                         "availability"} : o[f] # None /\ o[f][1] # <<>>
            \/ o.price # None
            \/ o.images # None /\ o.images[1] # <<>>
          by3 == /\ "stage3" \in ran.invoked
                 /\ \E b \in Stage3Results(url, req[r].norm.hostname) :
                      /\ b.preview # None /\ hasData(b.preview[1])
                      /\ final = scorePreview(mergePreviews(ran.current2[1], b.preview))
          by2 == /\ "stage2" \in ran.invoked
                 /\ \E d \in Stage2Results(url) :
                      /\ d.preview # None /\ hasData(d.preview[1])
                      /\ ran.current2[1] = scorePreview(mergePreviews(ran.scored1[1], d.preview))
      IN  final.source = IF by3 THEN "brightdata" ELSE IF by2 THEN "diffbot" ELSE "html"

\* C18: every request that ends in an error is answered by POST with a body
\* holding only a message, and the status code tells the kind: 401 only for
\* Unauthorized (no user), 400 only for BadRequest (no normalized URL), 429
\* only for RateLimited (check refused), 500 only for ExtractionFailed (a
\* final preview without title, image and price); a failure of the store
\* is answered in the same way with a code of its own.
C18_DistinctCodePerKind ==
  \A r \in DOMAIN req :
    /\ req[r].pc # "store_error"
    /\ (req[r].pc = "done" /\ req[r].resp[1].status # 200) =>
         LET resp == req[r].resp[1]
             kind == IF req[r].userId = "" THEN "Unauthorized"
                     ELSE IF ~req[r].norm.ok THEN "BadRequest"
                     ELSE IF req[r].rlChecked /\ ~req[r].allowed THEN "RateLimited"
                     ELSE IF req[r].run.preview # None THEN "ExtractionFailed"
                     ELSE "InternalError"
         IN  /\ DOMAIN resp.body = {"error"}
             /\ resp.status = 401 <=> kind = "Unauthorized"
             /\ resp.status = 400 <=> kind = "BadRequest"
             /\ resp.status = 429 <=> kind = "RateLimited"
             /\ resp.status = 500 <=> kind = "ExtractionFailed"

\* C21: when a call of Stage 2 or Stage 3 returned a null preview with a
\* warning, the final preview that is cached and returned carries that
\* warning.
C21_SoftFailureWarningsKept ==
  \A r \in DOMAIN req :
    (req[r].pc = "cache_write" \/ req[r].wrote) =>
      \A i \in 1..Len(req[r].run.soft) :
        \E j \in 1..Len(req[r].run.preview[1].warnings) :
          req[r].run.preview[1].warnings[j] = req[r].run.soft[i]

\* The handler runs on: a step that can be taken is taken.  Nothing makes an
\* awaited call settle when the remote side stays silent.
SpecLive == Spec /\ WF_vars(Next)

\* C22: every request that starts the stages eventually ends, with a response
\* of POST or with an exception: no stage call waits forever.
C22_EveryRequestEnds ==
  \A r \in Requests :
    (req[r].pc = "stage1") ~> (req[r].pc \in {"done", "crashed", "store_error"})

\* C28: in the preview that is cached and returned, 'Missing product image'
\* is a warning only if the image is missing, 'Missing price or currency' only
\* if the price or the currency is missing, 'Missing title' only if the title
\* is missing.
C28_MissingWarningsAreTrue ==
  \A r \in DOMAIN req :
    (req[r].pc = "cache_write" \/ req[r].wrote) =>
      LET p == req[r].run.preview[1]
          warned(w) == \E i \in 1..Len(p.warnings) : p.warnings[i] = w
      IN  /\ warned("Missing product image") => ~Truthy(p.image)
          /\ warned("Missing price or currency") => (p.price = None \/ ~Truthy(p.currency))
          /\ warned("Missing title") => ~Truthy(p.title)

\* C29: the title of the preview that is cached and returned does not begin
\* with 'Amazon.com: ' and does not end with ' | Amazon.com' or
\* ' - Amazon.com'.
C29_TitleWithoutBoilerplate ==
  \A r \in DOMAIN req :
    (req[r].pc = "cache_write" \/ req[r].wrote) =>
      LET title == req[r].run.preview[1].title
      IN  Truthy(title) =>
            LET t == title[1]
                n == Len(t)
            IN  /\ Head(t) # "Amazon.com:"
                /\ ~(n >= 3 /\ t[n] = "Amazon.com" /\ t[n - 1] = " " /\ t[n - 2] \in {"|", "-"})

\* C30, as claimed: on an Amazon or Walmart host, when title, image, price
\* and currency are all present after the Stage 2 step, Stage 3 has not run.
C30_Stage3SkippedWhenCriticalPresent ==
  \A r \in DOMAIN req :
    (/\ req[r].run.current2 # None
     /\ RestrictedHost(req[r].norm.hostname)
     /\ Truthy(req[r].run.current2[1].title) /\ Truthy(req[r].run.current2[1].image)
     /\ req[r].run.current2[1].price # None /\ Truthy(req[r].run.current2[1].currency))
      => "stage3" \notin req[r].run.invoked

\* C30: on an Amazon or Walmart host with title, image, price and currency
\* present after the Stage 2 step, a description that is present too makes
\* the confidence 0.95 and Stage 3 does not run; without the description's
\* 0.10 the confidence is below 0.95 and Stage 3 runs.
C30_Stage3SkippedOnlyWithDescription ==
  \A r \in DOMAIN req :
    (/\ req[r].run.current2 # None
     /\ RestrictedHost(req[r].norm.hostname)
     /\ Truthy(req[r].run.current2[1].title) /\ Truthy(req[r].run.current2[1].image)
     /\ req[r].run.current2[1].price # None /\ Truthy(req[r].run.current2[1].currency))
      => LET cur == req[r].run.current2[1]
         IN  /\ Truthy(cur.description) =>
                  (cur.confidence = 95 /\ "stage3" \notin req[r].run.invoked)
             /\ (~Truthy(cur.description) /\ cur.confidence < 95) =>
                  "stage3" \in req[r].run.invoked

\* on a Walmart host the cheaper stages found title, image, price and
\* currency but no description, and Stage 3 has run
C30_Witness ==
  \E r \in DOMAIN req :
    /\ req[r].run.current2 # None
    /\ req[r].norm.hostname = <<"www.", "walmart.", "com">>
    /\ Truthy(req[r].run.current2[1].title) /\ Truthy(req[r].run.current2[1].image)
    /\ req[r].run.current2[1].price # None /\ Truthy(req[r].run.current2[1].currency)
    /\ ~Truthy(req[r].run.current2[1].description)
    /\ req[r].run.current2[1].confidence = 85
    /\ "stage3" \in req[r].run.invoked

(***************************************************************************)
(* Concurrent requests for one product: two authenticated requests within  *)
(* the quota whose URLs normalize to the same value, from the cache lookup *)
(* onwards, their steps interleaved.                                       *)
(***************************************************************************)
Writers == {1, 2}

CacheHours == {11, 12}

SameProductUrls ==
  {<<"example.", "com", "/", "a", "?", "utm_source", "=", "x">>,
   <<"https:", "//", "example.", "com", "/", "a">>}

InitCache ==
  /\ now = 11
  /\ rateLimits = <<>>
  /\ allowedIn = <<>>
  /\ cache = <<>>
  /\ req \in [Writers -> {[FreshRequest EXCEPT !.pc = "cache_lookup", !.userId = "u1",
                                              !.norm = normalizeUrl(u),
                                              !.rlChecked = TRUE, !.allowed = TRUE] :
                            u \in SameProductUrls}]
  /\ served = 1
  /\ nIn = <<>> /\ nOut = <<>>
  /\ polling = None

NextCache ==
  \/ \E r \in Writers :
       \/ CacheLookup(r)
       \/ ExtractAny(r)
       \/ CacheWrite(r)
       \/ StoreRejects(r)
  \/ Tick(CacheHours)

SpecCache == InitCache /\ [][NextCache]_vars

\* C19: whatever the interleaving of the requests for one URL, the document
\* stored under a hash is, whole, the entry one run wrote: that run's hash
\* and normalized URL, that run's final preview without its undefined
\* fields, and the expiry of its creation time.
C19_EntryIsOneRunsWrite ==
  \A h \in DOMAIN cache :
    \E r \in DOMAIN req :
      /\ req[r].wrote
      /\ req[r].norm.hash = h
      /\ cache[h] = CacheEntry(req[r].norm.hash, req[r].norm.normalized,
                               req[r].run.preview[1], cache[h].createdAt)

\* two runs missed the cache, ended with different previews and both wrote
C19_Witness ==
  /\ \A r \in DOMAIN req : req[r].wrote
  /\ \E r1, r2 \in DOMAIN req :
       /\ req[r1].norm.hash = req[r2].norm.hash
       /\ DOMAIN StripUndefined(req[r1].run.preview[1])
            # DOMAIN StripUndefined(req[r2].run.preview[1])
       /\ req[r1].norm.hash \in DOMAIN cache

\* C27, as claimed: an unexpired entry with title, image, price and currency
\* is never replaced by an entry whose preview lacks one of them.
C27_CompleteEntryNeverDowngraded ==
  [][\A h \in DOMAIN cache :
       (cache[h].expiresAt >= now /\ ~isWeakPreview(cache[h].preview))
         => ~isWeakPreview(cache'[h].preview)]_vars

\* C27: the write is unconditional.  The request that ends its write leaves
\* its own entry under its hash whatever the cache held, with a preview that
\* has a title, an image or a price; no other step changes the cache.
C27_LastWriteWins ==
  [][/\ \A r \in DOMAIN req :
          (req[r].pc = "cache_write" /\ req'[r].wrote) =>
            /\ cache'[req[r].norm.hash] = req[r].pending[1]
            /\ ~TotalFailure(req[r].run.preview[1])
     /\ cache' # cache =>
          \E r \in DOMAIN req : req[r].pc = "cache_write" /\ req'[r].wrote]_vars

\* a run that missed the cache before a complete entry was written has
\* replaced that entry with a preview without image, price or currency
C27_Witness ==
  \E r1, r2 \in DOMAIN req :
    /\ req[r1].wrote /\ req[r2].wrote
    /\ req[r1].norm.hash = req[r2].norm.hash
    /\ ~isWeakPreview(StripUndefined(req[r1].run.preview[1]))
    /\ isWeakPreview(StripUndefined(req[r2].run.preview[1]))
    /\ req[r2].norm.hash \in DOMAIN cache
    /\ cache[req[r2].norm.hash].preview = StripUndefined(req[r2].run.preview[1])
    /\ cache[req[r2].norm.hash].expiresAt >= now

(***************************************************************************)
(* Inputs of normalizeUrl: scheme, host, path and query drawn from small   *)
(* sets and written out as a string.                                       *)
(***************************************************************************)
SchemeSamples ==
  {<<>>, <<"http:", "//">>, <<"https:", "//">>, <<"ftp:", "//">>, <<"localhost:">>}

HostSamples ==
  {<<"example.", "com">>, <<"WWW.", "Amazon.", "com">>, <<"www.", "walmart.", "com">>,
   <<"not", " ", "a", " ", "url">>}

SegSamples == {"", "a", "B0ABCDEFGH", "b0abcdefgh", "Chromebook"}

ParamSamples == {<<"utm_source", "x">>, <<"utm_id", "x">>, <<"gclid", "x">>, <<"id", "1">>}

SeqsUpTo(S, n) == UNION {[1..k -> S] : k \in 0..n}

QuerySamples ==
  {<<>>, <<"?">>}
  \cup {<<"?">> \o SerializeQuery(ps) : ps \in SeqsUpTo(ParamSamples, MaxParams) \ {<<>>}}

UrlInputs ==
  {sch \o h \o PathTokens(segs) \o q :
     sch \in SchemeSamples, h \in HostSamples,
     segs \in SeqsUpTo(SegSamples, MaxSegs), q \in QuerySamples}

\* Dummy values of the variables a harness does not use
IdleRest ==
  now = 0 /\ rateLimits = <<>> /\ cache = <<>> /\ req = <<>> /\ allowedIn = <<>> /\ served = 0
  /\ polling = None

InitNorm == nIn \in UrlInputs /\ nOut = <<>> /\ IdleRest

\* norm = normalizeUrl(input)
NormalizeOnce ==
  /\ nOut = <<>>
  /\ nOut' = <<normalizeUrl(nIn)>>
  /\ UNCHANGED <<now, rateLimits, cache, req, allowedIn, served, nIn, polling>>

\* normalizeUrl(norm.normalized)
NormalizeAgain ==
  /\ Len(nOut) = 1 /\ nOut[1].ok
  /\ nOut' = Append(nOut, normalizeUrl(nOut[1].normalized))
  /\ UNCHANGED <<now, rateLimits, cache, req, allowedIn, served, nIn, polling>>

NextNorm == NormalizeOnce \/ NormalizeAgain

SpecNorm == InitNorm /\ [][NextNorm]_vars

\* C10: normalizeUrl is idempotent: normalizing the normalized string gives
\* the same normalized string, hash and hostname again.
C10_Idempotent ==
  Len(nOut) = 2 =>
    /\ nOut[2].ok
    /\ nOut[2].normalized = nOut[1].normalized
    /\ nOut[2].hash = nOut[1].hash
    /\ nOut[2].hostname = nOut[1].hostname

(***************************************************************************)
(* Inputs of mergePreviews and scorePreview: a base preview and an overlay *)
(* with fields drawn from small sets.                                      *)
(***************************************************************************)
TitleSamples ==
  {None, Some(<<>>), Some(<<"Wireless", " ", "Mouse">>),
   Some(<<"Amazon.com:", " ", "Wireless", " ", "Mouse">>)}

DescriptionSamples == {None, Some(<<"Ergonomic">>), Some(<<"Wireless", " ", "Mouse">>)}

PriceSamples == {None, Some(Num(0)), Some(Num(1999))}

BasePreviews ==
  {[url |-> <<"https://shop/p">>, canonicalUrl |-> None, title |-> t, description |-> d,
    price |-> p, currency |-> c, image |-> i,
    images |-> IF i = None THEN None ELSE Some(<<i[1]>>),
    availability |-> None, source |-> "html", confidence |-> k, warnings |-> w] :
     t \in TitleSamples, d \in DescriptionSamples, p \in PriceSamples,
     c \in {None, Some(<<"USD">>)}, i \in {None, Some(<<"https://i/1.png">>)},
     k \in {0, 95}, w \in {<<>>, <<"HTML fetch failed">>}}

\* null; an overlay with no data field (images undefined or empty), with and
\* without a warning of its own; overlays with data
OverlayPreviews ==
  {None}
  \cup {Some([BarePreview(<<"https://shop/p">>, src, w) EXCEPT !.images = imgs]) :
          src \in {"diffbot", "brightdata"}, w \in {<<>>, <<"late">>},
          imgs \in {None, Some(<<>>)}}
  \cup {Some([BarePreview(<<"https://shop/p">>, "diffbot", <<>>) EXCEPT
                !.title = t, !.price = p, !.currency = Some(<<"EUR">>)]) :
          t \in {Some(<<>>), Some(<<"Mouse", " ", "|", " ", "Amazon.com">>)},
          p \in {None, Some(Num(0))}}

InitPreview ==
  /\ nIn \in BasePreviews \X OverlayPreviews
  /\ nOut = <<>>
  /\ now = 0 /\ rateLimits = <<>> /\ cache = <<>> /\ req = <<>> /\ allowedIn = <<>>
  /\ served = 0 /\ polling = None

\* merged = mergePreviews(base, overlay)
MergeOnce ==
  /\ nOut = <<>>
  /\ nOut' = <<[op |-> "merge", out |-> mergePreviews(nIn[1], nIn[2])]>>
  /\ UNCHANGED <<now, rateLimits, cache, req, allowedIn, served, nIn, polling>>

\* scored = scorePreview(base)
ScoreOnce ==
  /\ nOut = <<>>
  /\ nOut' = <<[op |-> "score", out |-> scorePreview(nIn[1])]>>
  /\ UNCHANGED <<now, rateLimits, cache, req, allowedIn, served, nIn, polling>>

\* scorePreview(scored)
ScoreAgain ==
  /\ Len(nOut) = 1 /\ nOut[1].op = "score"
  /\ nOut' = Append(nOut, [op |-> "score", out |-> scorePreview(nOut[1].out)])
  /\ UNCHANGED <<now, rateLimits, cache, req, allowedIn, served, nIn, polling>>

NextPreview == MergeOnce \/ ScoreOnce \/ ScoreAgain

SpecPreview == InitPreview /\ [][NextPreview]_vars

\* C13 as stated: for an overlay with no data field set, mergePreviews(base,
\* overlay) equals base with title and description cleaned, in every field.
C13_EmptyOverlayChangesNothing ==
  (/\ Len(nOut) = 1 /\ nOut[1].op = "merge"
   /\ nIn[2] # None
   /\ \A f \in {"canonicalUrl", "title", "description", "price", "currency", "image",
                "availability"} : nIn[2][1][f] = None
   /\ nIn[2][1].images \in {None, Some(<<>>)})
    => nOut[1].out = [nIn[1] EXCEPT !.title = cleanTitleText(@),
                                    !.description = cleanTitleText(@)]

\* C13, amended: for an overlay with no data field set, mergePreviews(base,
\* overlay) equals base with title and description cleaned in every field but
\* source, which is the tag of the overlay, and warnings, which are those of
\* base followed by those of the overlay.
C13_EmptyOverlayKeepsData ==
  (/\ Len(nOut) = 1 /\ nOut[1].op = "merge"
   /\ nIn[2] # None
   /\ \A f \in {"canonicalUrl", "title", "description", "price", "currency", "image",
                "availability"} : nIn[2][1][f] = None
   /\ nIn[2][1].images \in {None, Some(<<>>)})
    => nOut[1].out = [nIn[1] EXCEPT !.title = cleanTitleText(@),
                                    !.description = cleanTitleText(@),
                                    !.source = nIn[2][1].source,
                                    !.warnings = @ \o nIn[2][1].warnings]

\* A base tagged html with a title to clean has been merged with an overlay
\* tagged diffbot that has no data field.
C13_Witness ==
  /\ Len(nOut) = 1 /\ nOut[1].op = "merge"
  /\ nIn[2] = Some(BarePreview(<<"https://shop/p">>, "diffbot", <<>>))
  /\ nIn[1].title = Some(<<"Amazon.com:", " ", "Wireless", " ", "Mouse">>)
  /\ nIn[1].price = Some(Num(1999))
  /\ nOut[1].out.title = Some(<<"Wireless", " ", "Mouse">>)
  /\ nOut[1].out.price = Some(Num(1999))
  /\ nOut[1].out.source = "diffbot"

\* C15: scorePreview drops a description equal to the title; the confidence
\* it returns is the weighted sum (35, 25, 25, 10 hundredths) over the fields
\* of the preview it returns; scoring the result again returns the same
\* confidence.
C15_ConfidenceOfReturnedFields ==
  (Len(nOut) >= 1 /\ nOut[1].op = "score") =>
    LET in == nIn[1]
        out == nOut[1].out
        present(f) == out[f] # None /\ out[f][1] # <<>>
        sum == (IF present("title") THEN 35 ELSE 0)
               + (IF present("image") THEN 25 ELSE 0)
               + (IF out.price # None /\ present("currency") THEN 25 ELSE 0)
               + (IF present("description") THEN 10 ELSE 0)
    IN  /\ (in.title # None /\ in.title[1] # <<>> /\ in.description = in.title)
             => out.description = None
        /\ out.confidence = sum
        /\ Len(nOut) = 2 => nOut[2].out.confidence = out.confidence

\* C11: every URL on an Amazon host whose path holds the ASIN B0ABCDEFGH, in
\* either letter case, whatever the segments around it and the query,
\* normalizes to https://www.amazon.com/dp/B0ABCDEFGH and to the hash of that
\* string.
C11_AmazonCanonical ==
  (/\ Len(nOut) >= 1 /\ nOut[1].ok
   /\ \E i \in 1..Len(nIn) : nIn[i] = "Amazon."
   /\ \E i \in 1..Len(nIn) : nIn[i] \in {"B0ABCDEFGH", "b0abcdefgh"})
    => LET canonical == <<"https:", "//", "www.", "amazon.", "com", "/", "dp", "/", "B0ABCDEFGH">>
       IN  /\ nOut[1].normalized = canonical
           /\ nOut[1].hash = <<"sha256">> \o canonical

\* C12 as stated: for every input, the normalized URL holds no parameter
\* named in the tracking set or starting with utm_, and holds every other
\* parameter of the input with its value (here: every id=1).
C12_TrackingStrippedOthersKept ==
  (Len(nOut) >= 1 /\ nOut[1].ok) =>
    LET out == nOut[1].normalized
        ids(s) == {i \in 1..Len(s) : s[i] = "id"}
    IN  /\ \A i \in 1..Len(out) : out[i] \notin {"utm_source", "utm_id", "gclid"}
        /\ Cardinality(ids(out)) = Cardinality(ids(nIn))
        /\ \A i \in ids(out) : Len(out) >= i + 2 /\ out[i + 1] = "=" /\ out[i + 2] = "1"

\* C12, amended: the same, for every input that the Amazon rule does not
\* rewrite (no Amazon host, or no path segment of ten alphanumerics); the
\* Amazon rule drops the whole query.
C12_KeptUnlessAmazonRewrite ==
  (/\ Len(nOut) >= 1 /\ nOut[1].ok
   /\ ~(/\ \E i \in 1..Len(nIn) : nIn[i] = "Amazon."
        /\ \E i \in 1..Len(nIn) : nIn[i] \in {"B0ABCDEFGH", "b0abcdefgh", "Chromebook"}))
    => LET out == nOut[1].normalized
           ids(s) == {i \in 1..Len(s) : s[i] = "id"}
       IN  /\ \A i \in 1..Len(out) : out[i] \notin {"utm_source", "utm_id", "gclid"}
           /\ Cardinality(ids(out)) = Cardinality(ids(nIn))
           /\ \A i \in ids(out) : Len(out) >= i + 2 /\ out[i + 1] = "=" /\ out[i + 2] = "1"

\* example.com/a?utm_id=x&id=1 has been normalized to https://example.com/a?id=1
C12_Witness ==
  /\ nIn = <<"example.", "com", "/", "a", "?", "utm_id", "=", "x", "&", "id", "=", "1">>
  /\ Len(nOut) >= 1
  /\ nOut[1].normalized = <<"https:", "//", "example.", "com", "/", "a", "?", "id", "=", "1">>

(***************************************************************************)
(* The polling loop of Stage 3, ListHeader.tsx lines 395-411, on a clock   *)
(* in milliseconds.  A timer fires at its delay or later; a fetch takes    *)
(* time to answer.                                                         *)
(***************************************************************************)
POLL_INTERVAL_MS == 3000
MAX_POLL_MS == 45000

\* Date.now() when the loop is entered
StartSamples == {0, 1700}

\* how late the timer of setTimeout fires, how long a progress request takes
TimerLagMs == {0, 500}
FetchMs == {0, 1000}

\* the answers of the progress endpoint: the fetch rejects, a status that is
\* not ok, a body that is not JSON, a snapshot with a status, no answer
ProgressReplies ==
  {[kind |-> "throws"], [kind |-> "not_ok"], [kind |-> "bad_json"], [kind |-> "no_answer"],
   [kind |-> "snapshot", status |-> "running"],
   [kind |-> "snapshot", status |-> "completed"]}

\* lines 408-411: after the loop
AfterLoop(p) ==
  IF p.progress = None \/ p.progress[1] # "completed"
  THEN [p EXCEPT !.pc = "returned",
                 !.result = Some([preview |-> None,
                                  warnings |-> <<"Bright Data did not complete in time">>])]
  ELSE [p EXCEPT !.pc = "download"]

\* lines 395-396
InitPoll ==
  /\ \E t \in StartSamples :
       polling = [pc |-> "head", start |-> t, clock |-> t, progress |-> None,
               prevPollAt |-> None, lastPollAt |-> None, result |-> None]
  /\ now = 0 /\ rateLimits = <<>> /\ cache = <<>> /\ req = <<>> /\ allowedIn = <<>>
  /\ served = 0 /\ nIn = <<>> /\ nOut = <<>>

\* lines 398-399: the test of the loop, then the timer
LoopHead(lag) ==
  /\ polling.pc = "head"
  /\ polling' = IF polling.clock - polling.start < MAX_POLL_MS
             THEN [polling EXCEPT !.pc = "fetch", !.clock = @ + POLL_INTERVAL_MS + lag]
             ELSE AfterLoop(polling)
  /\ UNCHANGED <<now, rateLimits, cache, req, allowedIn, served, nIn, nOut>>

\* lines 400-405: the request leaves at the clock of the call and is
\* answered d milliseconds later
PollProgress(reply, d) ==
  /\ polling.pc = "fetch"
  /\ LET sent == [polling EXCEPT !.prevPollAt = polling.lastPollAt,
                              !.lastPollAt = Some(polling.clock),
                              !.clock = @ + d]
     IN  polling' = IF reply.kind \in {"throws", "bad_json"}
                 THEN [sent EXCEPT !.pc = "crashed"]
                 ELSE IF reply.kind = "no_answer"
                 THEN [polling EXCEPT !.prevPollAt = polling.lastPollAt,
                                      !.lastPollAt = Some(polling.clock),
                                      !.pc = "pending"]
                 ELSE IF reply.kind = "not_ok" THEN [sent EXCEPT !.pc = "head"]
                 ELSE LET got == [sent EXCEPT !.progress = Some(reply.status)]
                      IN  IF reply.status = "completed" THEN AfterLoop(got)
                          ELSE [got EXCEPT !.pc = "head"]
  /\ UNCHANGED <<now, rateLimits, cache, req, allowedIn, served, nIn, nOut>>

NextPoll ==
  \/ \E lag \in TimerLagMs : LoopHead(lag)
  \/ \E reply \in ProgressReplies, d \in FetchMs : PollProgress(reply, d)

SpecPoll == InitPoll /\ [][NextPoll]_vars

\* C20: two status polls are at least the polling interval apart; no polling is
\* issued after a polling has answered 'completed'; no polling is issued once the
\* ceiling of 45 seconds has passed since the loop began; a loop that ends
\* without 'completed' returns a null preview with the warning.
C20_PollsWithinCeiling ==
  /\ (polling.prevPollAt # None) =>
       polling.lastPollAt[1] - polling.prevPollAt[1] >= POLL_INTERVAL_MS
  /\ (polling.progress = Some("completed")) => polling.pc = "download"
  /\ (polling.lastPollAt # None) => polling.lastPollAt[1] - polling.start < MAX_POLL_MS
  /\ (polling.pc = "returned") =>
       polling.result = Some([preview |-> None,
                           warnings |-> <<"Bright Data did not complete in time">>])

\* C23: every URL normalizeUrl returns has the scheme https.
C23_AlwaysHttps ==
  (Len(nOut) >= 1 /\ nOut[1].ok) => nOut[1].normalized[1] = "https:"

(***************************************************************************)
(* The price of a stage: a dataset record with at most MaxPriceFields of   *)
(* its price fields set, or one raw value of a page or of Diffbot.         *)
(***************************************************************************)
MaxPriceFields == 2

PriceValueSamples ==
  {JsNumber(1999), JsNumber(500), JsNumber(0 - 500), JsString(<<"N/A">>)}

RawPriceSamples ==
  {JsNumber(1999), JsNumber(0 - 500), JsString(<<"$", "1999">>), JsString(<<"N/A">>),
   JsString(<<"-", "500">>), JsString(<<"1.2.3">>)}

RECURSIVE RecordsWith(_)
\* the records with at most n price fields set
RecordsWith(n) ==
  IF n = 0 THEN {NoPrices}
  ELSE {[rec EXCEPT ![k] = v] :
          rec \in RecordsWith(n - 1), k \in PriceFieldNames,
          v \in PriceValueSamples \cup {JsUndefined}}

InitPrice ==
  /\ nIn \in {[first |-> rec, raw |-> JsUndefined] : rec \in RecordsWith(MaxPriceFields)}
         \cup {[first |-> NoPrices, raw |-> v] : v \in RawPriceSamples}
  /\ nOut = <<>>
  /\ IdleRest

\* Stage 3 on the record
BrightPriceOnce ==
  /\ nOut = <<>>
  /\ nOut' = <<[op |-> "brightdata", out |-> BrightPrice(nIn.first)]>>
  /\ UNCHANGED <<now, rateLimits, cache, req, allowedIn, served, nIn, polling>>

\* Stage 1 on the raw value
HtmlPriceOnce ==
  /\ nOut = <<>>
  /\ nOut' = <<[op |-> "html", out |-> normalizePrice(nIn.raw)]>>
  /\ UNCHANGED <<now, rateLimits, cache, req, allowedIn, served, nIn, polling>>

\* Stage 2 on the raw value
DiffbotPriceOnce ==
  /\ nOut = <<>>
  /\ nOut' = <<[op |-> "diffbot", out |-> DiffbotPrice(nIn.raw)]>>
  /\ UNCHANGED <<now, rateLimits, cache, req, allowedIn, served, nIn, polling>>

NextPrice == BrightPriceOnce \/ HtmlPriceOnce \/ DiffbotPriceOnce

SpecPrice == InitPrice /\ [][NextPrice]_vars

\* C24: when a buy-box, current, sale or offer price field of the record
\* holds a number, Stage 3 extracts a price, and that price is not the value
\* of an original, list, retail or 'was' price field unless one of the
\* buy-box, current, sale or offer fields holds the same value.
C24_PriceFromPriorityFields ==
  (/\ Len(nOut) = 1 /\ nOut[1].op = "brightdata"
   /\ \E k \in {"buybox_price_value", "buybox_price", "current_price", "sale_price",
                "offer_price", "current_price_value"} : nIn.first[k].t = "number")
    => /\ nOut[1].out # None
       /\ \/ \E k \in {"buybox_price_value", "buybox_price", "current_price", "sale_price",
                       "offer_price", "buybox_price_str", "current_price_value"} :
               normalizeNum(nIn.first[k]) = nOut[1].out
          \/ ~\E k \in {"original_price", "list_price", "list_price_value", "retail_price",
                        "retail_price_value", "was_price", "was_price_value"} :
                normalizeNum(nIn.first[k]) = nOut[1].out

\* C25: the price a stage puts in its preview is absent or a number that is
\* not negative, whatever value the page, Diffbot or the dataset record holds.
C25_PriceNeverNegative ==
  Len(nOut) = 1 => (nOut[1].out = None \/ nOut[1].out[1][1] >= 0)

====
